---------------------------- MODULE Spec2Model ----------------------------
(***************************************************************************)
(* A model of the givilsta rule engine (internal/ruler): normalization of  *)
(* rule and subject text, flag classification, the strict / ends / regex   *)
(* indices and the lookup IsWhitelisted.                                   *)
(*                                                                         *)
(* Text is modelled by TLA+ strings; a Go string is a byte string, so the  *)
(* places where the code slices by byte offset go through Bytes.           *)
(***************************************************************************)
EXTENDS Integers, Sequences, FiniteSets, TLC

(***************************************************************************)
(* strings: the Go standard library operations the code uses               *)
(***************************************************************************)

Char(s, i) == SubSeq(s, i, i)

\* the non-ASCII letters of the model's alphabet, with their code points
NonASCII == {"ü", "ö"}

\* a lone first byte (0xC3) of a two-byte letter: U+FFFD when read as a rune
LoneByte == "Ã"

CodePoint(c) ==
    IF c = "ü" THEN 252 ELSE IF c = "ö" THEN 246 ELSE IF c = LoneByte THEN 65533 ELSE 0

RuneChar(n) ==
    IF n = 252 THEN "ü" ELSE IF n = 246 THEN "ö" ELSE IF n = 65533 THEN LoneByte ELSE "?"

\* s[i:] and s[:i] of Go, i a 0-based offset
From(s, i) == SubSeq(s, i + 1, Len(s))

UpTo(s, i) == SubSeq(s, 1, i)

HasPrefix(s, p) == Len(s) >= Len(p) /\ SubSeq(s, 1, Len(p)) = p

HasSuffix(s, p) == Len(s) >= Len(p) /\ SubSeq(s, Len(s) - Len(p) + 1, Len(s)) = p

TrimPrefix(s, p) == IF HasPrefix(s, p) THEN From(s, Len(p)) ELSE s

\* strings.Index: the 0-based offset of the first p in s, -1 when absent
Index(s, p) ==
    LET hits == {i \in 0..(Len(s) - Len(p)) : SubSeq(s, i + 1, i + Len(p)) = p}
    IN  IF hits = {} THEN -1 ELSE CHOOSE i \in hits : \A j \in hits : i <= j

LastIndex(s, p) ==
    LET hits == {i \in 0..(Len(s) - Len(p)) : SubSeq(s, i + 1, i + Len(p)) = p}
    IN  IF hits = {} THEN -1 ELSE CHOOSE i \in hits : \A j \in hits : i >= j

Contains(s, p) == Index(s, p) >= 0

WhiteSpace == {" ", "\t"}

RECURSIVE TrimLeft(_)
TrimLeft(s) ==
    IF Len(s) > 0 /\ Char(s, 1) \in WhiteSpace THEN TrimLeft(From(s, 1)) ELSE s

RECURSIVE TrimRight(_)
TrimRight(s) ==
    IF Len(s) > 0 /\ Char(s, Len(s)) \in WhiteSpace
    THEN TrimRight(UpTo(s, Len(s) - 1)) ELSE s

TrimSpace(s) == TrimRight(TrimLeft(s))

\* strings.Count for a one-character p
Count(s, p) == Cardinality({i \in 1..Len(s) : Char(s, i) = p})

\* strings.Replace(s, old, new, 1), old non-empty
ReplaceFirst(s, old, new) ==
    LET i == Index(s, old)
    IN  IF i < 0 \/ old = "" THEN s
        ELSE UpTo(s, i) \o new \o From(s, i + Len(old))

\* strings.ReplaceAll(s, old, new), old non-empty: non-overlapping, left to right
RECURSIVE ReplaceAllNE(_, _, _)
ReplaceAllNE(s, old, new) ==
    LET i == Index(s, old)
    IN  IF i < 0 THEN s
        ELSE UpTo(s, i) \o new \o ReplaceAllNE(From(s, i + Len(old)), old, new)

\* strings.ReplaceAll with an empty old inserts new before every character
\* and at the end
RECURSIVE Interleave(_, _)
Interleave(s, new) ==
    IF s = "" THEN new ELSE new \o Char(s, 1) \o Interleave(From(s, 1), new)

ReplaceAll(s, old, new) ==
    IF old = "" THEN Interleave(s, new) ELSE ReplaceAllNE(s, old, new)

\* strings.Split(s, sep), sep non-empty: a sequence of strings
RECURSIVE Split(_, _)
Split(s, sep) ==
    LET i == Index(s, sep)
    IN  IF i < 0 THEN <<s>>
        ELSE <<UpTo(s, i)>> \o Split(From(s, i + Len(sep)), sep)

RECURSIVE Join(_, _)
Join(parts, sep) ==
    IF Len(parts) = 0 THEN ""
    ELSE IF Len(parts) = 1 THEN parts[1]
    ELSE parts[1] \o sep \o Join(Tail(parts), sep)

Upper == "ABCDEFGHIJKLMNOPQRSTUVWXYZ"

Lower == "abcdefghijklmnopqrstuvwxyz"

Digits == "0123456789"

\* the characters of a text, as a set
Letters(text) == {Char(text, i) : i \in 1..Len(text)}

AlphaChars == Letters(Lower \o Upper)

DigitChars == Letters(Digits)

\* the lower-case letter of each upper-case letter
LowerOf == [c \in Letters(Upper) |-> Char(Lower, Index(Upper, c) + 1)]

LowerChar(c) == IF c \in DOMAIN LowerOf THEN LowerOf[c] ELSE c

RECURSIVE ToLower(_)
ToLower(s) == IF s = "" THEN "" ELSE LowerChar(Char(s, 1)) \o ToLower(From(s, 1))

\* the bytes of a Go string: one per ASCII character, two per "ü" or "ö" (UTF-8)
RECURSIVE Bytes(_)
Bytes(s) ==
    IF s = "" THEN <<>>
    ELSE (IF Char(s, 1) \in NonASCII
          THEN <<LoneByte, Char(s, 1) \o "/2">>
          ELSE <<Char(s, 1)>>) \o Bytes(From(s, 1))


(***************************************************************************)
(* golang.org/x/net/idna, ToASCII of the Punycode profile (no mapping, no  *)
(* validation): RFC 3492 encoding and decoding of each label               *)
(***************************************************************************)

\* a rune: an ASCII character (cp = 0) or a code point >= 128
Rune(c) == [a |-> IF CodePoint(c) # 0 THEN "" ELSE c, cp |-> CodePoint(c)]

Runes(s) == [i \in 1..Len(s) |-> Rune(Char(s, i))]

RECURSIVE RunesText(_)
RunesText(rs) ==
    IF Len(rs) = 0 THEN ""
    ELSE (IF rs[1].cp = 0 THEN rs[1].a ELSE RuneChar(rs[1].cp)) \o RunesText(Tail(rs))

IsAsciiRunes(rs) == \A i \in 1..Len(rs) : rs[i].cp = 0

PunyDigit(d) == Char(Lower \o Digits, d + 1)

\* decodeDigit: the value of a digit, -1 for a byte that is none
PunyValues ==
    [c \in AlphaChars \cup DigitChars |->
        IF Index(Lower, c) >= 0 THEN Index(Lower, c)
        ELSE IF Index(Upper, c) >= 0 THEN Index(Upper, c)
        ELSE 26 + Index(Digits, c)]

PunyValue(c) == IF c \in DOMAIN PunyValues THEN PunyValues[c] ELSE -1

PunyThreshold(k, bias) ==
    IF k <= bias THEN 1 ELSE IF k >= bias + 26 THEN 26 ELSE k - bias

RECURSIVE PunyAdaptLoop(_, _)
PunyAdaptLoop(delta, k) ==
    IF delta > 455 THEN PunyAdaptLoop(delta \div 35, k + 36)
    ELSE k + ((36 * delta) \div (delta + 38))

PunyAdapt(delta, numPoints, firstTime) ==
    LET d1 == IF firstTime THEN delta \div 700 ELSE delta \div 2
    IN  PunyAdaptLoop(d1 + (d1 \div numPoints), 0)

\* the variable-length integer q, digits from k on
RECURSIVE PunyVarInt(_, _, _)
PunyVarInt(q, k, bias) ==
    LET t == PunyThreshold(k, bias)
    IN  IF q < t THEN PunyDigit(q)
        ELSE PunyDigit(t + ((q - t) % (36 - t)))
             \o PunyVarInt((q - t) \div (36 - t), k + 36, bias)

\* one pass over the input for the code point st.n: st = [n, delta, bias, h, out]
RECURSIVE PunyPass(_, _, _, _)
PunyPass(rs, i, b, st) ==
    IF i > Len(rs) THEN st
    ELSE LET c == rs[i].cp
         IN  IF c < st.n
             THEN PunyPass(rs, i + 1, b, [st EXCEPT !.delta = @ + 1])
             ELSE IF c = st.n
             THEN PunyPass(rs, i + 1, b,
                      [st EXCEPT !.out   = @ \o PunyVarInt(st.delta, 36, st.bias),
                                 !.bias  = PunyAdapt(st.delta, st.h + 1, st.h = b),
                                 !.delta = 0,
                                 !.h     = @ + 1])
             ELSE PunyPass(rs, i + 1, b, st)

MinOf(S) == CHOOSE x \in S : \A y \in S : x <= y

RECURSIVE PunyLoop(_, _, _)
PunyLoop(rs, b, st) ==
    IF st.h >= Len(rs) THEN st.out
    ELSE LET Pass(m) ==
                 PunyPass(rs, 1, b,
                     [st EXCEPT !.delta = @ + (m - st.n) * (st.h + 1), !.n = m])
         IN  PunyLoop(rs, b,
                 [Pass(MinOf({rs[i].cp : i \in {j \in 1..Len(rs) : rs[j].cp >= st.n}}))
                      EXCEPT !.delta = @ + 1, !.n = @ + 1])

RECURSIVE BasicText(_)
BasicText(rs) ==
    IF Len(rs) = 0 THEN ""
    ELSE (IF rs[1].cp = 0 THEN rs[1].a ELSE "") \o BasicText(Tail(rs))

\* encode(prefix, s)
PunyEncode(prefix, rs) ==
    LET Start(basic) ==
            PunyLoop(rs, Len(basic),
                [n |-> 128, delta |-> 0, bias |-> 72, h |-> Len(basic),
                 out |-> prefix \o basic \o (IF Len(basic) > 0 THEN "-" ELSE "")])
    IN  Start(BasicText(rs))

InsertAt(seq, i, x) == SubSeq(seq, 1, i) \o <<x>> \o SubSeq(seq, i + 1, Len(seq))

\* one variable-length integer read at pos: [ok, i, pos]
RECURSIVE PunyReadInt(_, _, _, _, _, _)
PunyReadInt(enc, pos, i, w, k, bias) ==
    IF pos >= Len(enc) THEN [ok |-> FALSE, i |-> i, pos |-> pos]
    ELSE LET Read(digit, t) ==
                 IF digit < 0 THEN [ok |-> FALSE, i |-> i, pos |-> pos]
                 ELSE IF digit < t
                 THEN [ok |-> TRUE, i |-> i + digit * w, pos |-> pos + 1]
                 ELSE PunyReadInt(enc, pos + 1, i + digit * w, w * (36 - t), k + 36, bias)
         IN  Read(PunyValue(Char(enc, pos + 1)), PunyThreshold(k, bias))

\* the decoding loop: [ok, out]
RECURSIVE PunyDecodeLoop(_, _, _, _, _, _)
PunyDecodeLoop(enc, pos, i, n, bias, out) ==
    IF pos >= Len(enc) THEN [ok |-> TRUE, out |-> out]
    ELSE LET Insert(r, x, n1, i1) ==
                 IF ~r.ok \/ n1 > 1114111 THEN [ok |-> FALSE, out |-> <<>>]
                 ELSE PunyDecodeLoop(enc, r.pos, i1 + 1, n1,
                          PunyAdapt(r.i - i, x, i = 0),
                          InsertAt(out, i1, [a |-> "", cp |-> n1]))
             Step(r, x) == Insert(r, x, n + (r.i \div x), r.i % x)
         IN  Step(PunyReadInt(enc, pos, i, 1, 36, bias), Len(out) + 1)

\* decode(encoded): [ok, out], out a sequence of runes
PunyDecode(enc) ==
    LET After(pos) ==
            IF pos = 1 THEN [ok |-> FALSE, out |-> <<>>]
            ELSE IF pos = Len(enc)
            THEN [ok |-> TRUE, out |-> Runes(UpTo(enc, Len(enc) - 1))]
            ELSE PunyDecodeLoop(enc, pos, 0, 128, 72,
                     IF pos # 0 THEN Runes(UpTo(enc, pos - 1)) ELSE <<>>)
    IN  IF enc = "" THEN [ok |-> TRUE, out |-> <<>>]
        ELSE After(1 + LastIndex(enc, "-"))

AcePrefix == "xn--"

\* Profile.process for one label: [err, label]
IdnaLabel(label) ==
    LET Recode(u) ==
            IF ~u.ok THEN [err |-> TRUE, label |-> label]
            ELSE IF IsAsciiRunes(u.out) THEN [err |-> FALSE, label |-> RunesText(u.out)]
            ELSE [err |-> FALSE, label |-> PunyEncode(AcePrefix, u.out)]
        Encode(rs) ==
            IF IsAsciiRunes(rs) THEN [err |-> FALSE, label |-> label]
            ELSE [err |-> FALSE, label |-> PunyEncode(AcePrefix, rs)]
    IN  IF label = "" THEN [err |-> FALSE, label |-> label]
        ELSE IF HasPrefix(label, AcePrefix)
        THEN Recode(PunyDecode(From(label, Len(AcePrefix))))
        ELSE Encode(Runes(label))

\* idna.ToASCII(s): [err, text], label by label
IdnaToASCII(s) ==
    LET Each(labels) == [i \in 1..Len(labels) |-> IdnaLabel(labels[i])]
        Joined(done) ==
            [err  |-> \E i \in 1..Len(done) : done[i].err,
             text |-> Join([i \in 1..Len(done) |-> done[i].label], ".")]
    IN  Joined(Each(Split(s, ".")))

(***************************************************************************)
(* net/url: Parse, for the fields ExtractNetLocationFromURL reads.  The    *)
(* model's texts hold no '%' escape, no '[' (IPv6 literal) and no control  *)
(* character but the tab.                                                  *)
(***************************************************************************)

\* strings.Cut(s, sep): the text before the first sep, the text after it
CutBefore(s, sep) == IF Contains(s, sep) THEN UpTo(s, Index(s, sep)) ELSE s

CutAfter(s, sep) == IF Contains(s, sep) THEN From(s, Index(s, sep) + Len(sep)) ELSE ""

SchemeOther == Letters("+-.")

\* getScheme: [err, scheme, rest]
RECURSIVE GetSchemeFrom(_, _)
GetSchemeFrom(raw, i) ==
    IF i >= Len(raw) THEN [err |-> FALSE, scheme |-> "", rest |-> raw]
    ELSE LET c == Char(raw, i + 1)
         IN  IF c \in AlphaChars
             THEN GetSchemeFrom(raw, i + 1)
             ELSE IF c \in DigitChars \/ c \in SchemeOther
             THEN (IF i = 0 THEN [err |-> FALSE, scheme |-> "", rest |-> raw]
                   ELSE GetSchemeFrom(raw, i + 1))
             ELSE IF c = ":"
             THEN (IF i = 0 THEN [err |-> TRUE, scheme |-> "", rest |-> ""]
                   ELSE [err |-> FALSE, scheme |-> UpTo(raw, i), rest |-> From(raw, i + 1)])
             ELSE [err |-> FALSE, scheme |-> "", rest |-> raw]

GetScheme(raw) == GetSchemeFrom(raw, 0)

\* the ASCII characters shouldEscape(c, encodeHost) lets through unescaped
HostChars == AlphaChars \cup DigitChars \cup Letters("!$&'()*+,;=:[]<>-_.~")

\* validOptionalPort
ValidOptionalPort(port) ==
    \/ port = ""
    \/ /\ Char(port, 1) = ":"
       /\ \A i \in 2..Len(port) : Char(port, i) \in DigitChars

\* parseHost: [err, host]
ParseHost(host) ==
    LET i == LastIndex(host, ":")
    IN  IF i # -1 /\ ~ValidOptionalPort(From(host, i)) THEN [err |-> TRUE, host |-> ""]
        ELSE IF \E k \in 1..Len(host) :
                    /\ CodePoint(Char(host, k)) = 0
                    /\ Char(host, k) \notin HostChars
        THEN [err |-> TRUE, host |-> ""]
        ELSE [err |-> FALSE, host |-> host]

\* the ASCII characters validUserinfo accepts
UserinfoChars == AlphaChars \cup DigitChars \cup Letters("-._:~!$&'()*+,;=%@")

\* parseAuthority: [err, host]
ParseAuthority(authority) ==
    LET Checked(i, h) ==
            IF h.err THEN h
            ELSE IF i >= 0 /\ \E k \in 1..i : Char(authority, k) \notin UserinfoChars
            THEN [err |-> TRUE, host |-> ""]
            ELSE h
        After(i) == Checked(i, ParseHost(IF i < 0 THEN authority ELSE From(authority, i + 1)))
    IN  After(LastIndex(authority, "@"))

\* url.Parse: [err, Host, Path]
UrlParse(rawURL) ==
    LET bad == [err |-> TRUE, Host |-> "", Path |-> ""]
        Hosted(a, path) ==
            IF a.err THEN bad ELSE [err |-> FALSE, Host |-> a.host, Path |-> path]
        Authority(auth0, i) ==
            Hosted(ParseAuthority(IF i >= 0 THEN UpTo(auth0, i) ELSE auth0),
                   IF i >= 0 THEN From(auth0, i) ELSE "")
        AuthorityOf(auth0) == Authority(auth0, Index(auth0, "/"))
        Parsed(u, sch, rest) ==
            IF Contains(u, "\t") THEN bad
            ELSE IF u = "*" THEN [err |-> FALSE, Host |-> "", Path |-> "*"]
            ELSE IF sch.err THEN bad
            ELSE IF ~HasPrefix(rest, "/") /\ sch.scheme # ""
            THEN [err |-> FALSE, Host |-> "", Path |-> ""]
            ELSE IF ~HasPrefix(rest, "/") /\ Contains(CutBefore(rest, "/"), ":") THEN bad
            ELSE IF (sch.scheme # "" \/ ~HasPrefix(rest, "///")) /\ HasPrefix(rest, "//")
            THEN AuthorityOf(From(rest, 2))
            ELSE [err |-> FALSE, Host |-> "", Path |-> rest]
        Query(r) ==
            IF HasSuffix(r, "?") /\ Count(r, "?") = 1
            THEN UpTo(r, Len(r) - 1) ELSE CutBefore(r, "?")
        Schemed(u, sch) == Parsed(u, sch, Query(sch.rest))
        Fragment(u) == Schemed(u, GetScheme(u))
    IN  Fragment(CutBefore(rawURL, "#"))

(***************************************************************************)
(* internal/ruler/transformer.go                                           *)
(***************************************************************************)

\* (string, error) and the like: err, and the text when there is none
Ok(text) == [err |-> FALSE, text |-> text]

Failed == [err |-> TRUE, text |-> ""]

HostName(host) == IF Contains(host, ":") THEN Split(host, ":")[1] ELSE host

AfterSlashes(result) ==
    IF Contains(result, "//") THEN From(result, Index(result, "//") + 2) ELSE result

BeforeSlash(result) ==
    IF Contains(result, "/") THEN UpTo(result, Index(result, "/")) ELSE result

NetLocationOf(rawURL, urlObj) ==
    IF urlObj.err THEN Failed
    ELSE IF urlObj.Host = "" /\ urlObj.Path # ""
    THEN Ok(BeforeSlash(AfterSlashes(urlObj.Path)))
    ELSE IF urlObj.Host # "" THEN Ok(BeforeSlash(AfterSlashes(HostName(urlObj.Host))))
    ELSE Ok(BeforeSlash(AfterSlashes(rawURL)))

ExtractNetLocationFromURL(rawURL) ==
    IF rawURL = "" THEN Failed ELSE NetLocationOf(rawURL, UrlParse(rawURL))

idnazeString(subject) ==
    LET r == IdnaToASCII(subject) IN IF r.err THEN subject ELSE r.text

\* the names regex_to_skip matches at the end of the text
SkipNames ==
    {"localhost", "localdomain", "local", "broadcasthost", "0.0.0.0", "allhosts",
     "allnodes", "allrouters", "localnet", "loopback", "mcastprefix"}

regex_to_skip(s) == \E n \in SkipNames : HasSuffix(s, n)

\* the separator idnaze splits the text at
SeparatorOf(s) == IF Contains(s, "\t") THEN "\t" ELSE IF Contains(s, " ") THEN " " ELSE ""

idnazeToken(token) ==
    IF token = "" \/ regex_to_skip(token) THEN token ELSE idnazeString(token)

idnazeTokens(tokens) == [i \in 1..Len(tokens) |-> idnazeToken(tokens[i])]

idnazeParts(subjects, comment, separator) ==
    IF comment # ""
    THEN Join(idnazeTokens(Split(subjects, separator)), separator) \o "#" \o comment
    ELSE Join(idnazeTokens(Split(subjects, separator)), separator)

idnazeTrimmed(s) ==
    IF s = "" \/ HasPrefix(s, "#") \/ regex_to_skip(s) THEN s
    ELSE IF SeparatorOf(s) = "" THEN idnazeString(s)
    ELSE idnazeParts(CutBefore(s, "#"), CutAfter(s, "#"), SeparatorOf(s))

\* idnaze never takes its error branch: a token of the text before the first
\* '#' holds no '#'
idnaze(s) == idnazeTrimmed(TrimSpace(s))

NormalizeURL(urlStr) ==
    LET Replace(netloc) ==
            IF netloc.err THEN urlStr
            ELSE ReplaceFirst(urlStr, netloc.text, idnaze(netloc.text))
    IN  Replace(ExtractNetLocationFromURL(urlStr))

IsURL(s) == HasPrefix(s, "http://") \/ HasPrefix(s, "https://")

\* s[:strings.Index(s, "#")-1]: a byte offset, so a two-byte letter before
\* the '#' leaves its first byte
BeforeHash(s) ==
    LET i == Index(s, "#")
    IN  IF Char(s, i) \in NonASCII THEN UpTo(s, i - 1) \o LoneByte ELSE UpTo(s, i - 1)

\* the text before an inline comment
CutComment(s) == IF Contains(s, "#") THEN TrimSpace(BeforeHash(s)) ELSE s

NormalizeSubject(subject0, complementHandling) ==
    LET Www(idnazed) ==
            IF complementHandling THEN TrimPrefix(idnazed, "www.") ELSE idnazed
        Normalize(subject) ==
            IF subject = "" \/ HasPrefix(subject, "#") THEN ""
            ELSE IF IsURL(subject) THEN NormalizeURL(subject)
            ELSE Www(idnaze(CutComment(subject)))
    IN  Normalize(TrimSpace(subject0))

NormalizeRule(rule0) ==
    LET Normalize(rule) ==
            IF rule = "" \/ HasPrefix(rule, "#") THEN ""
            ELSE IF IsURL(rule) THEN NormalizeURL(rule)
            ELSE idnaze(CutComment(rule))
    IN  Normalize(TrimSpace(rule0))


(***************************************************************************)
(* regexp: MustCompile and MatchString, for patterns made of literal       *)
(* characters, '.', a postfix '*', '^', '$' and the alternation '|'.  The  *)
(* model's rule texts hold no other metacharacter.                         *)
(***************************************************************************)

\* whether regexp.Compile accepts the pattern: a '*' needs an operand, and
\* may not follow another '*'
RegexValid(p) ==
    \A i \in 1..Len(p) :
        Char(p, i) = "*" =>
            /\ i > 1
            /\ Char(p, i - 1) \notin {"*", "|"}

\* whether the pattern alt[k..] matches a prefix of s[pos..]
RECURSIVE MatchHere(_, _, _, _)
MatchHere(alt, k, s, pos) ==
    IF k > Len(alt) THEN TRUE
    ELSE LET c     == Char(alt, k)
             star  == k < Len(alt) /\ Char(alt, k + 1) = "*"
             next  == IF star THEN k + 2 ELSE k + 1
             fits(i) == i <= Len(s) /\ (c = "." \/ c = Char(s, i))
         IN  IF c \in {"^", "$"}
             THEN /\ star \/ (IF c = "^" THEN pos = 1 ELSE pos = Len(s) + 1)
                  /\ MatchHere(alt, next, s, pos)
             ELSE IF star
             THEN \E n \in 0..(Len(s) + 1 - pos) :
                      /\ \A i \in pos..(pos + n - 1) : fits(i)
                      /\ MatchHere(alt, next, s, pos + n)
             ELSE fits(pos) /\ MatchHere(alt, next, s, pos + 1)

\* Regexp.MatchString: some alternative matches somewhere in s
MatchString(pattern, s) ==
    LET alts == Split(pattern, "|")
    IN  \E a \in 1..Len(alts) : \E pos \in 1..(Len(s) + 1) :
            MatchHere(alts[a], 1, s, pos)

(***************************************************************************)
(* internal/ruler: the InternalRuler value and its methods.  A method is   *)
(* an operator from the value fun to the value it leaves.                  *)
(***************************************************************************)

Separators == <<" ", ":", "#", ",", "@">>

FlagsOf(names) ==
    LET n == Len(Separators)
    IN  [i \in 1..(Len(names) * n) |->
            names[((i - 1) \div n) + 1] \o Separators[((i - 1) % n) + 1]]

FlagsAll == FlagsOf(<<"ALL">>)

FlagsReg == FlagsOf(<<"REG">>)

FlagsRzdb == FlagsOf(<<"RZD", "RZDB">>)

\* a compiled_regexp: nil, or the pattern it was compiled from
NilRegexp == <<>>

Compiled(pattern) == <<pattern>>

NewInternalRuler(handle_complement) ==
    [strict            |-> <<>>,
     ends              |-> <<>>,
     present           |-> <<>>,
     regex             |-> "",
     compiled_regexp   |-> NilRegexp,
     extensions        |-> <<>>,
     handle_complement |-> handle_complement]

StrictKeyLen == 4

EndsKeyLen == 3

\* rule[:4], or the rule when shorter: byte offsets
commonSearchKeyFromRule(rule) ==
    LET b == Bytes(rule)
    IN  IF Len(b) < StrictKeyLen THEN b ELSE SubSeq(b, 1, StrictKeyLen)

\* rule[len(rule)-3:], or the rule when shorter
endsSearchKeyFromRule(rule) ==
    LET b == Bytes(rule)
    IN  IF Len(b) < EndsKeyLen THEN b ELSE SubSeq(b, Len(b) - EndsKeyLen + 1, Len(b))

\* m[key] = append(m[key], rule), m a map from keys to slices
MapAppend(m, key, rule) ==
    IF key \in DOMAIN m THEN [m EXCEPT ![key] = Append(@, rule)]
    ELSE [k \in DOMAIN m \cup {key} |-> IF k = key THEN <<rule>> ELSE m[k]]

\* the slice without its first element equal to rule
RemoveFirst(rules, rule) ==
    LET hits == {i \in 1..Len(rules) : rules[i] = rule}
        i    == CHOOSE x \in hits : \A y \in hits : x <= y
    IN  IF hits = {} THEN rules
        ELSE SubSeq(rules, 1, i - 1) \o SubSeq(rules, i + 1, Len(rules))

MapRemove(m, key, rule) ==
    IF key \in DOMAIN m THEN [m EXCEPT ![key] = RemoveFirst(@, rule)] ELSE m

SliceContains(rules, x) == \E i \in 1..Len(rules) : rules[i] = x

\* pushStrictRule, were it to keep one copy of a rule, as a set would
pushStrictRuleOnce(fun, rule) ==
    IF /\ commonSearchKeyFromRule(rule) \in DOMAIN fun.strict
       /\ SliceContains(fun.strict[commonSearchKeyFromRule(rule)], rule)
    THEN fun
    ELSE [fun EXCEPT !.strict = MapAppend(@, commonSearchKeyFromRule(rule), rule)]

pushStrictRule(fun, rule) ==
    [fun EXCEPT !.strict = MapAppend(@, commonSearchKeyFromRule(rule), rule)]

\* pullStrictRule, were it to drop every occurrence of the rule, not the first
pullStrictRuleEvery(fun, rule) ==
    [fun EXCEPT !.strict =
        [k \in DOMAIN @ |-> SelectSeq(@[k], LAMBDA r : r # rule)]]

pullStrictRule(fun, rule) ==
    [fun EXCEPT !.strict = MapRemove(@, commonSearchKeyFromRule(rule), rule)]

pushEndsRule(fun, rule) ==
    [fun EXCEPT !.ends = MapAppend(@, endsSearchKeyFromRule(rule), rule)]

pullEndsRule(fun, rule) ==
    [fun EXCEPT !.ends = MapRemove(@, endsSearchKeyFromRule(rule), rule)]

\* what a method leaves: the value, and whether it panicked on the way
Done(fun) == [fun |-> fun, panic |-> FALSE]

Panic(fun) == [fun |-> fun, panic |-> TRUE]

\* regexp.MustCompile panics on a pattern that does not compile; fun.regex is
\* assigned before
pushRegexRule(fun, rule) ==
    LET regex   == IF fun.regex = "" THEN rule ELSE fun.regex \o "|" \o rule
        pattern == IF fun.compiled_regexp = NilRegexp THEN regex
                   ELSE fun.compiled_regexp[1] \o "|" \o rule
        f1      == [fun EXCEPT !.regex = regex]
    IN  IF RegexValid(pattern)
        THEN Done([f1 EXCEPT !.compiled_regexp = Compiled(pattern)])
        ELSE Panic(f1)

pullRegexRule(fun, rule) ==
    LET regex == ReplaceAll(fun.regex, rule, "")
        f1    == [fun EXCEPT !.regex = regex]
    IN  IF fun.regex = "" \/ fun.compiled_regexp = NilRegexp THEN Done(fun)
        ELSE IF regex = "" THEN Done([f1 EXCEPT !.compiled_regexp = NilRegexp])
        ELSE IF RegexValid(regex)
        THEN Done([f1 EXCEPT !.compiled_regexp = Compiled(regex)])
        ELSE Panic(f1)

\* a HasFlag that wants the letters of a flag and no separator after them
HasFlagLetters(flags, rule) ==
    LET Bare(flag) == UpTo(flag, Len(Bytes(flag)) - 1)
        Has(lowered) == \E i \in 1..Len(flags) : HasPrefix(lowered, ToLower(Bare(flags[i])))
    IN  Has(TrimSpace(ToLower(rule)))

HasFlag(flags, rule) ==
    LET Has(lowered) == \E i \in 1..Len(flags) : HasPrefix(lowered, ToLower(flags[i]))
    IN  Has(TrimSpace(ToLower(rule)))

RECURSIVE cleanupFlagsFrom(_, _, _)
cleanupFlagsFrom(flags, i, rule) ==
    IF i > Len(flags) THEN rule
    ELSE IF ~HasFlag(<<flags[i]>>, rule) THEN cleanupFlagsFrom(flags, i + 1, rule)
    ELSE cleanupFlagsFrom(flags, i + 1,
             TrimSpace(TrimPrefix(TrimPrefix(rule, flags[i]), ToLower(flags[i]))))

cleanupFlags(flags, rule) == cleanupFlagsFrom(flags, 1, rule)


(***************************************************************************)
(* internal/data: the two providers.  A fetch either fails (the provider   *)
(* panics) or yields the mapping; Go ranges over a map in no fixed order,  *)
(* so a provider's list is any ordering of the keys.                       *)
(***************************************************************************)

\* the sequences that list each element of S once
Orderings(S) ==
    {q \in [1..Cardinality(S) -> S] : \A i, j \in 1..Cardinality(S) : q[i] = q[j] => i = j}

RECURSIVE Flatten(_)
Flatten(seqs) == IF Len(seqs) = 0 THEN <<>> ELSE seqs[1] \o Flatten(Tail(seqs))

\* NewIANAExtensions().Extensions: the keys of the root-zone mapping
NewIANAExtensions(mapping, order) == [Extensions |-> order]

\* NewPSLExtensions(): Extensions holds the suffix lists and Suffixes the keys
NewPSLExtensions(mapping, order) ==
    [Extensions |-> Flatten([i \in 1..Len(order) |-> mapping[order[i]]]),
     Suffixes   |-> order]

\* what the providers answer to one fetch of a feed [iana, psl, mayFail]
FetchOutcomes(feed) ==
    [iana : Orderings(feed.iana),
     psl  : Orderings(DOMAIN feed.psl),
     fail : IF feed.mayFail THEN {"none", "iana", "psl"} ELSE {"none"}]

\* getKnownExtensions: [fun, panic, fetched]
getKnownExtensions(fun, feed, env) ==
    LET e1 == fun.extensions \o NewIANAExtensions(feed.iana, env.iana).Extensions
        e2 == e1 \o NewPSLExtensions(feed.psl, env.psl).Suffixes
    IN  IF Len(fun.extensions) # 0 THEN [fun |-> fun, panic |-> FALSE, fetched |-> FALSE]
        ELSE IF env.fail = "iana" THEN [fun |-> fun, panic |-> TRUE, fetched |-> TRUE]
        ELSE IF env.fail = "psl"
        THEN [fun |-> [fun EXCEPT !.extensions = e1], panic |-> TRUE, fetched |-> TRUE]
        ELSE [fun |-> [fun EXCEPT !.extensions = e2], panic |-> FALSE, fetched |-> TRUE]

(***************************************************************************)
(* the rule kinds: what a parse / unparse method returns is                *)
(* [ret, fun, panic, fetched]                                              *)
(***************************************************************************)

Returns(ret, fun) == [ret |-> ret, fun |-> fun, panic |-> FALSE, fetched |-> FALSE]

Panics(fun) == [ret |-> FALSE, fun |-> fun, panic |-> TRUE, fetched |-> FALSE]

\* the entries an ALL rule adds or removes, in the order of the calls
\* the entries of an ALL rule, were the strict entry added whatever the
\* number of dots
AllEntriesAnyDots(fun, record) ==
    LET new_record == TrimPrefix(record, ".")
    IN  IF HasPrefix(record, ".")
        THEN (IF fun.handle_complement
              THEN <<[strict |-> TRUE, rule |-> "www." \o new_record]>> ELSE <<>>)
             \o <<[strict |-> TRUE, rule |-> new_record],
                  [strict |-> FALSE, rule |-> record]>>
        ELSE <<[strict |-> FALSE, rule |-> "." \o record],
               [strict |-> TRUE, rule |-> record]>>

AllEntries(fun, record) ==
    LET new_record == TrimPrefix(record, ".")
    IN  IF HasPrefix(record, ".")
        THEN (IF Count(record, ".") > 1
              THEN (IF fun.handle_complement
                    THEN <<[strict |-> TRUE, rule |-> "www." \o new_record]>> ELSE <<>>)
                   \o <<[strict |-> TRUE, rule |-> new_record]>>
              ELSE <<>>)
             \o <<[strict |-> FALSE, rule |-> record]>>
        ELSE <<[strict |-> FALSE, rule |-> "." \o record],
               [strict |-> TRUE, rule |-> record]>>

RECURSIVE PushEntries(_, _)
PushEntries(fun, entries) ==
    IF Len(entries) = 0 THEN fun
    ELSE PushEntries(IF entries[1].strict THEN pushStrictRule(fun, entries[1].rule)
                     ELSE pushEndsRule(fun, entries[1].rule),
                     Tail(entries))

RECURSIVE PullEntries(_, _)
PullEntries(fun, entries) ==
    IF Len(entries) = 0 THEN fun
    ELSE PullEntries(IF entries[1].strict THEN pullStrictRule(fun, entries[1].rule)
                     ELSE pullEndsRule(fun, entries[1].rule),
                     Tail(entries))

parseAllFlaggedRule(fun, rule) ==
    IF ~HasFlag(FlagsAll, rule) THEN Returns(FALSE, fun)
    ELSE Returns(TRUE, PushEntries(fun, AllEntries(fun, cleanupFlags(FlagsAll, rule))))

unparseAllFlaggedRule(fun, rule) ==
    IF ~HasFlag(FlagsAll, rule) THEN Returns(FALSE, fun)
    ELSE Returns(TRUE, PullEntries(fun, AllEntries(fun, cleanupFlags(FlagsAll, rule))))

\* what a helper that may panic left, as the return of the method
Pushed(r) == IF r.panic THEN Panics(r.fun) ELSE Returns(TRUE, r.fun)

parseRegexFlaggedRule(fun, rule) ==
    IF ~HasFlag(FlagsReg, rule) THEN Returns(FALSE, fun)
    ELSE Pushed(pushRegexRule(fun, cleanupFlags(FlagsReg, rule)))

unparseRegexFlaggedRule(fun, rule) ==
    IF ~HasFlag(FlagsReg, rule) THEN Returns(FALSE, fun)
    ELSE Pushed(pullRegexRule(fun, cleanupFlags(FlagsReg, rule)))

\* the strict entries of a broad rule, extension by extension
RzdbEntries(fun, record, extensions) ==
    Flatten([i \in 1..Len(extensions) |->
        <<[strict |-> TRUE, rule |-> record \o "." \o extensions[i]]>>
        \o (IF fun.handle_complement
            THEN <<[strict |-> TRUE, rule |-> "www." \o record \o "." \o extensions[i]]>>
            ELSE <<>>)])

StripWww(fun, record) ==
    IF fun.handle_complement /\ HasPrefix(record, "www.")
    THEN TrimPrefix(record, "www.") ELSE record

parseRZDBFlagedRule(fun, rule, feed, env) ==
    LET Push(record, known) ==
            IF known.panic
            THEN [ret |-> FALSE, fun |-> known.fun, panic |-> TRUE, fetched |-> TRUE]
            ELSE [ret     |-> TRUE,
                  fun     |-> PushEntries(known.fun,
                                  RzdbEntries(fun, record, known.fun.extensions)),
                  panic   |-> FALSE,
                  fetched |-> known.fetched]
    IN  IF ~HasFlag(FlagsRzdb, rule) THEN Returns(FALSE, fun)
        ELSE Push(StripWww(fun, StripWww(fun, cleanupFlags(FlagsRzdb, rule))),
                  getKnownExtensions(fun, feed, env))

unparseRZDBFlagedRule(fun, rule, feed, env) ==
    LET Pull(record, known) ==
            IF known.panic
            THEN [ret |-> FALSE, fun |-> known.fun, panic |-> TRUE, fetched |-> TRUE]
            ELSE [ret     |-> TRUE,
                  fun     |-> PullEntries(known.fun,
                                  RzdbEntries(fun, record, known.fun.extensions)),
                  panic   |-> FALSE,
                  fetched |-> known.fetched]
    IN  IF ~HasFlag(FlagsRzdb, rule) THEN Returns(FALSE, fun)
        ELSE Pull(StripWww(fun, cleanupFlags(FlagsRzdb, rule)),
                  getKnownExtensions(fun, feed, env))

\* the second strict entry of a plain rule under complement handling:
\* [err, text]
ComplementOf(rule) ==
    LET Toggled(netloc) ==
            IF netloc.err THEN Failed
            ELSE IF HasPrefix(netloc.text, "www.")
            THEN Ok(ReplaceAll(rule, netloc.text, TrimPrefix(netloc.text, "www.")))
            ELSE Ok(ReplaceAll(rule, netloc.text, "www." \o netloc.text))
    IN  IF IsURL(rule) THEN Toggled(ExtractNetLocationFromURL(rule))
        ELSE IF HasPrefix(rule, "www.") THEN Ok(TrimPrefix(rule, "www."))
        ELSE Ok("www." \o rule)

\* parsePlainRule, were it to add the complement whatever handle_complement is
parsePlainRuleAlways(fun, rule) ==
    LET Push(other) ==
            IF other.err THEN Returns(FALSE, fun)
            ELSE Returns(TRUE, pushStrictRule(pushStrictRule(fun, other.text), rule))
    IN  Push(ComplementOf(rule))

parsePlainRule(fun, rule) ==
    LET Push(other) ==
            IF other.err THEN Returns(FALSE, fun)
            ELSE Returns(TRUE, pushStrictRule(pushStrictRule(fun, other.text), rule))
    IN  IF ~fun.handle_complement THEN Returns(TRUE, pushStrictRule(fun, rule))
        ELSE Push(ComplementOf(rule))

unparsePlainRule(fun, rule) ==
    LET Pull(other) ==
            IF other.err THEN Returns(FALSE, fun)
            ELSE Returns(TRUE, pullStrictRule(pullStrictRule(fun, other.text), rule))
    IN  IF ~fun.handle_complement THEN Returns(TRUE, pullStrictRule(fun, rule))
        ELSE Pull(ComplementOf(rule))

\* a || b || c || d: the first method that returns true (or panics) ends it
FirstOf(a, b, c, d) ==
    IF a.ret \/ a.panic THEN a
    ELSE IF b.ret \/ b.panic THEN b
    ELSE IF c.ret \/ c.panic THEN c
    ELSE d

AddRule(fun, rule, feed, env) ==
    LET Parse(normalizedRule) ==
            IF normalizedRule = "" THEN Returns(FALSE, fun)
            ELSE FirstOf(parseAllFlaggedRule(fun, normalizedRule),
                         parseRegexFlaggedRule(fun, normalizedRule),
                         parseRZDBFlagedRule(fun, normalizedRule, feed, env),
                         parsePlainRule(fun, normalizedRule))
    IN  Parse(NormalizeRule(rule))

RemoveRule(fun, rule, feed, env) ==
    LET Unparse(normalizedRule) ==
            IF normalizedRule = "" THEN Returns(FALSE, fun)
            ELSE FirstOf(unparseAllFlaggedRule(fun, normalizedRule),
                         unparseRegexFlaggedRule(fun, normalizedRule),
                         unparseRZDBFlagedRule(fun, normalizedRule, feed, env),
                         unparsePlainRule(fun, normalizedRule))
    IN  Unparse(NormalizeRule(rule))

\* the subjects looked up, were the whole URL of an http(s) subject left out
CandidatesNetLocation(subject, complementHandling) ==
    LET Both(normalizedSubject, netloc) ==
            IF normalizedSubject = "" \/ netloc.err THEN <<>> ELSE <<netloc.text>>
        Of(normalizedSubject) ==
            Both(normalizedSubject, ExtractNetLocationFromURL(normalizedSubject))
    IN  Of(NormalizeSubject(subject, complementHandling))

\* the subjects IsWhitelisted looks up, in order; none when it returns early
Candidates(subject, complementHandling) ==
    LET Both(normalizedSubject, netloc) ==
            IF normalizedSubject = "" \/ netloc.err THEN <<>>
            ELSE <<netloc.text>> \o (IF IsURL(normalizedSubject)
                                     THEN <<normalizedSubject>> ELSE <<>>)
        Of(normalizedSubject) ==
            Both(normalizedSubject, ExtractNetLocationFromURL(normalizedSubject))
    IN  Of(NormalizeSubject(subject, complementHandling))

InMap(m, key, sub) == key \in DOMAIN m /\ SliceContains(m[key], sub)

\* a turn of the loop that takes a filled bucket of the strict index for a
\* match, without looking for the subject in it
MatchesSubjectBucket(fun, sub) ==
    \/ /\ commonSearchKeyFromRule(sub) \in DOMAIN fun.strict
       /\ fun.strict[commonSearchKeyFromRule(sub)] # <<>>
    \/ /\ fun.compiled_regexp # NilRegexp
       /\ MatchString(fun.compiled_regexp[1], sub)

\* one turn of the loop of IsWhitelisted
MatchesSubject(fun, sub) ==
    LET commonKey == commonSearchKeyFromRule(sub)
        endKey    == endsSearchKeyFromRule(sub)
    IN  \/ InMap(fun.strict, commonKey, sub)
        \/ InMap(fun.present, commonKey, sub)
        \/ /\ endKey \in DOMAIN fun.ends
           /\ \E i \in 1..Len(fun.ends[endKey]) : HasSuffix(sub, fun.ends[endKey][i])
        \/ /\ fun.compiled_regexp # NilRegexp
           /\ MatchString(fun.compiled_regexp[1], sub)

\* IsWhitelisted passes the ruler's handle_complement to NormalizeSubject
IsWhitelisted(fun, subject) ==
    LET Some(subjects) == \E i \in 1..Len(subjects) : MatchesSubject(fun, subjects[i])
    IN  Some(Candidates(subject, fun.handle_complement))


(***************************************************************************)
(* the engine as a state machine: a caller feeds rule texts to AddRule and *)
(* RemoveRule and subjects to IsWhitelisted, one call at a time            *)
(***************************************************************************)

VARIABLES
    fun,      \* the InternalRuler
    feed,     \* what surrounds it: the texts the caller draws from, the providers
    hist,     \* the last two AddRule / RemoveRule calls, oldest first
    answer,   \* the last IsWhitelisted call since then, if any
    halted,   \* a panic ended the process
    fetches,  \* the fetches of the providers so far
    calls     \* the AddRule / RemoveRule calls so far

vars == <<fun, feed, hist, answer, halted, fetches, calls>>

\* the calls of AddRule and RemoveRule one behaviour makes
MaxCalls == 3

NoAnswer == <<>>

\* a feed: the rule texts and subjects of the caller, the settings of
\* handle_complement it may construct the ruler with, the two mappings of the
\* providers, and whether a fetch may fail
Feed(rules, subjects, complement, iana, psl, mayFail) ==
    [rules |-> rules, subjects |-> subjects, complement |-> complement,
     iana |-> iana, psl |-> psl, mayFail |-> mayFail]

InitWith(f) ==
    /\ feed = f
    /\ fun \in {NewInternalRuler(c) : c \in f.complement}
    /\ hist = <<>>
    /\ answer = NoAnswer
    /\ halted = FALSE
    /\ fetches = 0
    /\ calls = 0

\* the record of a call: the ruler before it, what it returned
Call(op, rule, r) ==
    [op |-> op, rule |-> rule, ret |-> r.ret, panic |-> r.panic, pre |-> fun]

Remember(call) == IF Len(hist) < 2 THEN Append(hist, call) ELSE <<hist[2], call>>

\* a fetch happens only with no extension cached
Outcomes == IF Len(fun.extensions) # 0
            THEN {CHOOSE e \in FetchOutcomes(feed) : TRUE}
            ELSE FetchOutcomes(feed)

Mutate(op, rule, r) ==
    /\ fun' = r.fun
    /\ halted' = r.panic
    /\ hist' = Remember(Call(op, rule, r))
    /\ fetches' = fetches + (IF r.fetched THEN 1 ELSE 0)
    /\ answer' = NoAnswer
    /\ calls' = calls + 1
    /\ UNCHANGED feed

AddRuleCall(rule) ==
    /\ ~halted
    /\ calls < MaxCalls
    /\ \E env \in Outcomes : \E r \in {AddRule(fun, rule, feed, env)} :
           Mutate("AddRule", rule, r)

RemoveRuleCall(rule) ==
    /\ ~halted
    /\ calls < MaxCalls
    /\ \E env \in Outcomes : \E r \in {RemoveRule(fun, rule, feed, env)} :
           Mutate("RemoveRule", rule, r)

\* IsWhitelisted leaves the ruler as it is: the model follows one call from
\* each store, a second call would start from the same store
IsWhitelistedCall(subject) ==
    /\ ~halted
    /\ answer = NoAnswer
    /\ answer' = <<[subject |-> subject, ret |-> IsWhitelisted(fun, subject)]>>
    /\ UNCHANGED <<fun, feed, hist, halted, fetches, calls>>

Next ==
    \/ \E rule \in feed.rules : AddRuleCall(rule)
    \/ \E rule \in feed.rules : RemoveRuleCall(rule)
    \/ \E subject \in feed.subjects : IsWhitelistedCall(subject)

\* the catalog of the tests: de, com from the root zone, org, net public suffixes
TestIana == {"de", "com"}

TestPsl == [tld \in {"org", "net"} |-> IF tld = "org" THEN <<"co.org">> ELSE <<>>]

\* the rules and subjects of TestIsWhitelisted and TestIsWhitelistedWithComplements
TestFeed ==
    Feed({"foo.example.com", "https://saarbrücken.saarland/foo/bar", "ALL .org",
          "ALL foo", "REG vö.*", "RZDB www.gü"},
         {"foo.example.com", "www.foo.example.com", "bar.example.org",
          "https://saarbrücken.saarland", "https://saarbrücken.saarland/foo/bar",
          "vö.de", "gü.de", "bar.foo"},
         BOOLEAN, TestIana, TestPsl, FALSE)

Init == InitWith(TestFeed)

Spec == Init /\ [][Next]_vars

(***************************************************************************)
(* What the claims are about: the kind AddRule and RemoveRule take a rule   *)
(* text for, and the shapes of the last calls                               *)
(***************************************************************************)

\* the kind of a rule text, in the order AddRule tries the kinds
RuleKind(rule) ==
    LET Kind(n) ==
            IF n = "" THEN "none"
            ELSE IF HasFlag(FlagsAll, n) THEN "all"
            ELSE IF HasFlag(FlagsReg, n) THEN "reg"
            ELSE IF HasFlag(FlagsRzdb, n) THEN "rzdb"
            ELSE "plain"
    IN  Kind(NormalizeRule(rule))

\* the last two calls were AddRule(r) and then RemoveRule(r)
AddThenRemove ==
    /\ Len(hist) = 2
    /\ hist[1].op = "AddRule"
    /\ hist[2].op = "RemoveRule"
    /\ hist[1].rule = hist[2].rule

\* IsWhitelisted was called after the last AddRule / RemoveRule
Answered == answer # NoAnswer

(***************************************************************************)
(* C1: undo for plain and ALL rules                                        *)
(***************************************************************************)

\* a catalog of one extension per provider, for the feeds without broad rules
OneIana == {"de"}

OnePsl == [tld \in {"org"} |-> <<"co.org">>]

\* a plain rule, an ALL rule that makes a strict and an ends entry, and a
\* regex rule for the stores the pair of calls starts from
SpecUndo ==
    /\ InitWith(Feed({"foo.example.com", "ALL .example.org", "REG ^bar"},
                     {"foo.example.com", "www.foo.example.com", "bar.example.org",
                      "example.org"},
                     BOOLEAN, OneIana, OnePsl, FALSE))
    /\ [][Next]_vars

\* C1: from any store state, with complement handling on or off, after
\* AddRule(r) and then RemoveRule(r) of a plain or ALL-flagged rule r,
\* IsWhitelisted answers for every subject what it answered before the AddRule
UndoPlainAndAll ==
    (Answered /\ AddThenRemove /\ RuleKind(hist[1].rule) \in {"plain", "all"})
        => answer[1].ret = IsWhitelisted(hist[1].pre, answer[1].subject)

\* the rule was in the store before the pair of calls, and still decides the
\* subject after it
UndoPlainAndAllWitness ==
    /\ AddThenRemove
    /\ RuleKind(hist[1].rule) \in {"plain", "all"}
    /\ calls = 3
    /\ Answered
    /\ answer[1].ret
    /\ ~IsWhitelisted(NewInternalRuler(fun.handle_complement), answer[1].subject)

(***************************************************************************)
(* C2: what AddRule and RemoveRule return                                  *)
(***************************************************************************)

\* the rule texts of TestRuleHandling, and two with an inline comment
SpecReturn ==
    /\ InitWith(Feed({"", "# comment", "foo.example.com", "all,example.com",
                      "foo.example.com # comment", "a#x"},
                     {"foo.example.com", "example.com"},
                     BOOLEAN, OneIana, OnePsl, FALSE))
    /\ [][Next]_vars

\* the raw rule text is empty, or a comment, once trimmed
BlankOrComment(rule) == TrimSpace(rule) = "" \/ HasPrefix(TrimSpace(rule), "#")

\* C2: AddRule(r) and RemoveRule(r) return false when r, trimmed, is empty or
\* begins with '#', and true for every other r, an r with an inline comment
\* after its entry included
ReturnsTrueUnlessBlankOrComment ==
    \A i \in 1..Len(hist) : hist[i].ret = ~BlankOrComment(hist[i].rule)

(***************************************************************************)
(* C3, C9: a plain rule alone in the store                                 *)
(***************************************************************************)

\* the plain rules of TestIsWhitelisted and their subjects, the Unicode name
\* shortened, and a text that begins with http:// but is no URL (url.Parse
\* refuses the blank in its host)
SpecPlain ==
    /\ InitWith(Feed({"foo.example.com", "https://gü.de/foo/bar", "http://a b/c"},
                     {"foo.example.com", "bar.example.com", "www.foo.example.com",
                      "https://foo.example.com/bar", "gü.de", "https://gü.de",
                      "https://gü.de/foo/bar", "http://a b/c"},
                     BOOLEAN, OneIana, OnePsl, FALSE))
    /\ [][Next]_vars

\* no entry in any bucket, no regex
EmptyStore(f) ==
    /\ \A k \in DOMAIN f.strict : f.strict[k] = <<>>
    /\ \A k \in DOMAIN f.ends : f.ends[k] = <<>>
    /\ f.compiled_regexp = NilRegexp

LastCall == hist[Len(hist)]

\* the last call added a rule of the kind, and returned true
LastAdded(kind) ==
    /\ Len(hist) > 0
    /\ LastCall.op = "AddRule"
    /\ LastCall.ret
    /\ RuleKind(LastCall.rule) = kind

\* the last call added a rule of the kind to a store without entry
OnlyRule(kind) == Len(hist) > 0 /\ EmptyStore(LastCall.pre) /\ LastAdded(kind)

\* the normalized net location of a subject: [err, text]
SubjectNetLocation(subject, complementHandling) ==
    LET Of(n) == IF n = "" THEN Failed ELSE ExtractNetLocationFromURL(n)
    IN  Of(NormalizeSubject(subject, complementHandling))

\* the net location of the subject is the text
NetLocationIs(subject, complementHandling, text) ==
    LET Is(netloc) == ~netloc.err /\ netloc.text = text
    IN  Is(SubjectNetLocation(subject, complementHandling))

\* the subject is an http(s) URL whose net location can be read and whose
\* normalized form is the text
FullURLIs(subject, complementHandling, text) ==
    /\ ~SubjectNetLocation(subject, complementHandling).err
    /\ IsURL(NormalizeSubject(subject, complementHandling))
    /\ NormalizeSubject(subject, complementHandling) = text

FullURLRule ==
    LET u    == LastCall.rule
        host == CutBefore(CutAfter(u, "://"), "/")
    IN  (/\ Answered
         /\ OnlyRule("plain")
         /\ IsURL(u)
         /\ Contains(CutAfter(u, "://"), "/")
         /\ ~UrlParse(u).err)
            => /\ answer[1].subject = u => answer[1].ret
               /\ answer[1].subject = CutBefore(u, "://") \o "://" \o host
                      => ~answer[1].ret
               /\ answer[1].subject = host => ~answer[1].ret

\* the full URL of the rule was asked for and found, with another rule added
\* and removed before
FullURLRuleWitness ==
    /\ Answered
    /\ OnlyRule("plain")
    /\ LastCall.rule = "https://gü.de/foo/bar"
    /\ answer[1].subject = LastCall.rule
    /\ answer[1].ret
    /\ calls = 3

(***************************************************************************)
(* C4, C5: ALL rules                                                       *)
(***************************************************************************)

\* the suffix rule of TestIsWhitelisted, a suffix of two bytes, the entry of
\* the README and an entry of one byte, both written without the leading dot
SpecSuffix ==
    /\ InitWith(Feed({"ALL .org", "ALL .a", "ALL gov.uk", "ALL a"},
                     {"bar.example.org", "example.com", "x.a", "https://x.a/b",
                      "service.gov.uk", "gov.uk", "xgov.uk"},
                     BOOLEAN, OneIana, OnePsl, FALSE))
    /\ [][Next]_vars

\* the net location of the subject ends with the text
NetLocationEndsWith(subject, complementHandling, text) ==
    LET Ends(netloc) == ~netloc.err /\ HasSuffix(netloc.text, text)
    IN  Ends(SubjectNetLocation(subject, complementHandling))

\* C4: after AddRule of an ALL rule whose body b begins with '.', a subject
\* whose net location ends with b is whitelisted, whatever the length of b;
\* with no other rule in the store, a subject that does not end with b is not
SuffixRuleAnyLength ==
    LET b == cleanupFlags(FlagsAll, NormalizeRule(LastCall.rule))
    IN  (Answered /\ OnlyRule("all") /\ HasPrefix(b, "."))
            => answer[1].ret
                   = NetLocationEndsWith(answer[1].subject, fun.handle_complement, b)

\* C5: after AddRule('ALL ' + e) for an entry e written without a leading
\* dot, any subject that ends with e is whitelisted
EndsWithEntry ==
    LET e == cleanupFlags(FlagsAll, NormalizeRule(LastCall.rule))
    IN  (/\ Answered
         /\ LastAdded("all")
         /\ ~HasPrefix(e, ".")
         /\ NetLocationEndsWith(answer[1].subject, fun.handle_complement, e))
            => answer[1].ret

(***************************************************************************)
(* C6: regex rules                                                         *)
(***************************************************************************)

\* the regex rule of TestIsWhitelisted, the Unicode name shortened, written
\* with a blank, with another separator, and with the flag in mixed case
SpecRegex ==
    /\ InitWith(Feed({"REG vö.*", "REG:vö.*", "Reg foo"},
                     {"vö.de", "https://vö.de/bar", "foo", "bar.com"},
                     BOOLEAN, OneIana, OnePsl, FALSE))
    /\ [][Next]_vars

\* C6: after AddRule of a REG-flagged rule with body p, IsWhitelisted(s) is
\* true for every subject s for which p (normalized as the rule is) matches
\* the normalized net location of s or, for an http(s) subject, the whole
\* normalized URL
RegexRuleMatches ==
    LET raw  == TrimSpace(LastCall.rule)
        p    == idnaze(From(raw, 4))
        subs == Candidates(answer[1].subject, fun.handle_complement)
    IN  (/\ Answered
         /\ Len(hist) > 0
         /\ LastCall.op = "AddRule"
         /\ HasFlag(FlagsReg, raw)
         /\ \E i \in 1..Len(subs) : MatchString(p, subs[i]))
            => answer[1].ret

(***************************************************************************)
(* C7: broad (RZDB) rules                                                  *)
(***************************************************************************)

\* the RZDB rule of TestIsWhitelisted, the Unicode name shortened, written
\* with a blank, with another separator, and with the flag in mixed case;
\* the catalog is {"de", "org"}
SpecRzdb ==
    /\ InitWith(Feed({"RZDB gü", "RZD:gü", "Rzdb foo"},
                     {"gü.de", "gü.org", "gü.xyz", "foo.de"},
                     BOOLEAN, OneIana, OnePsl, FALSE))
    /\ [][Next]_vars

\* C7: after AddRule of an RZDB- or RZD-flagged rule with body b, b.e is
\* whitelisted for every extension e of the catalog, and when the rule is
\* the only one b.x is not whitelisted for any x outside the catalog
BroadRuleExpansion ==
    LET raw  == TrimSpace(LastCall.rule)
        b    == From(raw, IF ToLower(Char(raw, 4)) = "b" THEN 5 ELSE 4)
        E    == feed.iana \cup DOMAIN feed.psl
        s    == answer[1].subject
    IN  (/\ Answered
         /\ Len(hist) > 0
         /\ LastCall.op = "AddRule"
         /\ ~LastCall.panic
         /\ HasFlag(FlagsRzdb, raw)
         /\ HasPrefix(s, b \o "."))
            => /\ TrimPrefix(s, b \o ".") \in E => answer[1].ret
               /\ (EmptyStore(LastCall.pre) /\ TrimPrefix(s, b \o ".") \notin E)
                     => ~answer[1].ret

(***************************************************************************)
(* C8: complement handling                                                 *)
(***************************************************************************)

\* the plain rules of TestIsWhitelistedWithComplements in both forms, names
\* shortened, and a URL whose path repeats its host
SpecComplement ==
    /\ InitWith(Feed({"a.b", "www.a.b", "https://a.b/c", "https://www.a.b/c",
                      "https://a.b/a.b"},
                     {"a.b", "www.a.b", "https://a.b/c", "https://www.a.b/c",
                      "https://a.b/a.b", "https://www.a.b/a.b", "c.b"},
                     BOOLEAN, OneIana, OnePsl, FALSE))
    /\ [][Next]_vars

\* C8: with complement handling on, after AddRule of a plain rule r, a bare
\* host or an http(s) URL, both r and r with the "www." label of its host
\* toggled are whitelisted
ComplementBothForms ==
    LET r       == LastCall.rule
        Www(t)  == IF HasPrefix(t, "www.") THEN TrimPrefix(t, "www.")
                   ELSE "www." \o t
        host    == IF IsURL(r) THEN Index(r, "//") + 2 ELSE 0
        toggled == UpTo(r, host) \o Www(From(r, host))
    IN  (/\ Answered
         /\ Len(hist) > 0
         /\ fun.handle_complement
         /\ LastAdded("plain")
         /\ answer[1].subject \in {r, toggled})
            => answer[1].ret

(***************************************************************************)
(* C10: Unicode equivalence                                                *)
(***************************************************************************)

\* a Unicode name and a Unicode name under a reserved suffix, each with its
\* ASCII-compatible encoding
SpecUnicode ==
    /\ InitWith(Feed({"gü.de", "xn--g-eha.de", "ü.local", "xn--tda.local"},
                     {"gü.de", "xn--g-eha.de", "ü.local", "xn--tda.local"},
                     BOOLEAN, OneIana, OnePsl, FALSE))
    /\ [][Next]_vars

\* C10: for every store and every domain d with ASCII-compatible encoding
\* a(d), IsWhitelisted(d) equals IsWhitelisted(a(d)) and AddRule(d) changes
\* the store exactly as AddRule(a(d)) does
UnicodeEquivalence ==
    LET a(d) == idnazeString(d)
        env  == CHOOSE e \in FetchOutcomes(feed) : TRUE
    IN  /\ Answered
            => answer[1].ret = IsWhitelisted(fun, a(answer[1].subject))
        /\ (Len(hist) > 0 /\ LastCall.op = "AddRule")
            => fun = AddRule(LastCall.pre, a(LastCall.rule), feed, env).fun

(***************************************************************************)
(* C11: undo for regex rules                                               *)
(***************************************************************************)

\* two regex rules, neither pattern inside the other
SpecRegexUndo ==
    /\ InitWith(Feed({"REG ^foo", "REG ^bar"},
                     {"foo.com", "bar.com", "baz.com"},
                     BOOLEAN, OneIana, OnePsl, FALSE))
    /\ [][Next]_vars

\* C11: from a store in which, the added clause included, no regex clause is
\* inside another, AddRule("REG " + p) and then RemoveRule("REG " + p) leave
\* the answer of IsWhitelisted for every subject what it was before the AddRule
UndoRegex ==
    LET clauses == Split(hist[2].pre.regex, "|")
    IN  (/\ Answered
         /\ AddThenRemove
         /\ RuleKind(hist[1].rule) = "reg"
         /\ \A i, j \in 1..Len(clauses) :
                i # j => ~Contains(clauses[i], clauses[j]))
            => answer[1].ret = IsWhitelisted(hist[1].pre, answer[1].subject)

(***************************************************************************)
(* C12: undo for broad rules                                               *)
(***************************************************************************)

\* broad rules whose body has no, one and two leading "www." labels; the
\* catalog is {"de", "org"}
SpecRzdbUndo ==
    /\ InitWith(Feed({"RZD foo", "RZDB www.foo", "RZDB www.www.foo"},
                     {"foo.de", "www.foo.de", "www.www.foo.org", "foo.xyz"},
                     BOOLEAN, OneIana, OnePsl, FALSE))
    /\ [][Next]_vars

\* C12: with complement handling on or off, AddRule(r) and then RemoveRule(r)
\* of an RZDB- or RZD-flagged rule r, whatever "www." labels lead its body,
\* leave the answer of IsWhitelisted for every subject what it was before the
\* AddRule
UndoBroad ==
    (Answered /\ AddThenRemove /\ RuleKind(hist[1].rule) = "rzdb")
        => answer[1].ret = IsWhitelisted(hist[1].pre, answer[1].subject)

(***************************************************************************)
(* C13: removing a rule that was not added                                 *)
(***************************************************************************)

\* an ALL rule and the plain rule of its strict entry, a regex rule and a
\* regex rule whose pattern is inside it
SpecAbsent ==
    /\ InitWith(Feed({"ALL .example.org", "example.org", "REG ^foo", "REG fo"},
                     {"example.org", "a.example.org", "foo.com", "bar.com"},
                     BOOLEAN, OneIana, OnePsl, FALSE))
    /\ [][Next]_vars

\* C13: RemoveRule(r) of a rule r that was not added leaves the answer of
\* IsWhitelisted for every subject what it was, whatever the kind of r (here
\* the store holds one rule, which is not r)
RemoveAbsentIsNoOp ==
    (/\ Answered
     /\ calls = 2
     /\ Len(hist) = 2
     /\ hist[1].op = "AddRule"
     /\ hist[2].op = "RemoveRule"
     /\ NormalizeRule(hist[1].rule) # NormalizeRule(hist[2].rule))
        => answer[1].ret = IsWhitelisted(hist[2].pre, answer[1].subject)

(***************************************************************************)
(* C14: duplicate strict entries                                           *)
(***************************************************************************)

\* how many copies of an entry the strict map holds
Copies(f, entry) ==
    LET In(key) ==
            IF key \in DOMAIN f.strict
            THEN Cardinality({i \in 1..Len(f.strict[key]) : f.strict[key][i] = entry})
            ELSE 0
    IN  In(commonSearchKeyFromRule(entry))

\* C14: every AddRule(r) of a plain rule r stores one more copy of r and every
\* RemoveRule(r) removes exactly one stored copy, and a subject that only r
\* matches is whitelisted as long as a copy is left: after r was added k
\* times, it is after fewer than k removals and is no more after the k-th
DuplicateStrictEntries ==
    LET n     == NormalizeRule(LastCall.rule)
        was   == Copies(LastCall.pre, n)
        subs  == Candidates(answer[1].subject, fun.handle_complement)
    IN  (Len(hist) > 0 /\ RuleKind(LastCall.rule) = "plain" /\ LastCall.ret)
            => /\ LastCall.op = "AddRule" => Copies(fun, n) = was + 1
               /\ LastCall.op = "RemoveRule"
                     => Copies(fun, n) = (IF was = 0 THEN 0 ELSE was - 1)
               /\ (/\ Answered
                   /\ \E i \in 1..Len(subs) : subs[i] = n
                   /\ \A i \in 1..Len(subs) : subs[i] # n => Copies(fun, subs[i]) = 0)
                     => answer[1].ret = (Copies(fun, n) > 0)

\* r was added twice and removed once, and its subject is still whitelisted
DuplicateStrictEntriesWitness ==
    /\ Len(hist) = 2
    /\ calls = 3
    /\ hist[1].op = "AddRule"
    /\ hist[2].op = "RemoveRule"
    /\ hist[1].rule = hist[2].rule
    /\ Copies(hist[1].pre, NormalizeRule(hist[1].rule)) = 1
    /\ Copies(fun, NormalizeRule(hist[1].rule)) = 1
    /\ Answered
    /\ answer[1].subject = hist[1].rule
    /\ answer[1].ret

(***************************************************************************)
(* C15: the five separators                                                *)
(***************************************************************************)

\* an ALL rule with each of the five separators, and a regex and a broad
\* rule with '#'
SpecSeparators ==
    /\ InitWith(Feed({"ALL example.org", "ALL:example.org", "ALL@example.org",
                      "ALL#example.org", "ALL,example.org", "REG#^foo", "RZDB#foo"},
                     {"example.org", "a.example.org", "foo.de", "foo.com", "AL"},
                     BOOLEAN, OneIana, OnePsl, FALSE))
    /\ [][Next]_vars

\* C15: AddRule(flag + separator + body) changes the store as
\* AddRule(flag + " " + body) does, for each of the five separators
SeparatorsAlike ==
    LET raw   == LastCall.rule
        n     == IF ToLower(Char(raw, 4)) = "b" THEN 4 ELSE 3
        blank == UpTo(raw, n) \o " " \o From(raw, n + 1)
        env   == CHOOSE e \in FetchOutcomes(feed) : TRUE
    IN  (Len(hist) > 0 /\ LastCall.op = "AddRule")
            => fun = AddRule(LastCall.pre, blank, feed, env).fun

(***************************************************************************)
(* C16: the casing of the flag                                             *)
(***************************************************************************)

\* flags in upper, lower and mixed case
SpecCase ==
    /\ InitWith(Feed({"ALL example.org", "all example.org", "All example.org",
                      "reg ^foo", "rEG ^foo", "rzd foo", "Rzdb foo"},
                     {"example.org", "a.example.org", "foo.de", "foo.com"},
                     BOOLEAN, OneIana, OnePsl, FALSE))
    /\ [][Next]_vars

\* C16: whatever the casing of its flag, AddRule changes the store as it does
\* with the flag in upper case
FlagCaseAlike ==
    LET raw   == LastCall.rule
        low   == ToLower(UpTo(raw, 3))
        flag  == IF low = "all" THEN "ALL" ELSE IF low = "reg" THEN "REG" ELSE "RZD"
        upper == IF ToLower(Char(raw, 4)) = "b" THEN flag \o "B" \o From(raw, 4)
                 ELSE flag \o From(raw, 3)
        env   == CHOOSE e \in FetchOutcomes(feed) : TRUE
    IN  (Len(hist) > 0 /\ LastCall.op = "AddRule")
            => fun = AddRule(LastCall.pre, upper, feed, env).fun

(***************************************************************************)
(* C17: inline comments                                                    *)
(***************************************************************************)

\* C17: for a rule line that is no URL, AddRule(b + "#" + c) and
\* AddRule(b + " # " + c) change the store as AddRule(b) does, b being the
\* text before the first '#'
InlineCommentStripped ==
    LET raw == LastCall.rule
        b   == UpTo(raw, Index(raw, "#"))
        env == CHOOSE e \in FetchOutcomes(feed) : TRUE
    IN  (/\ Len(hist) > 0
         /\ LastCall.op = "AddRule"
         /\ Contains(raw, "#")
         /\ ~IsURL(TrimSpace(raw)))
            => fun = AddRule(LastCall.pre, b, feed, env).fun

(***************************************************************************)
(* pkg/givilsta: the public ruler, a wrapper of the InternalRuler          *)
(***************************************************************************)

FlagAll == "ALL@"

FlagReg == "REG@"

FlagRzdb == "RZDB@"

AddRuleWithFlag(f, rule, flag, fd, env) == AddRule(f, flag \o rule, fd, env)

RemoveRuleWithFlag(f, rule, flag, fd, env) == RemoveRule(f, flag \o rule, fd, env)

IsSubjectWhitelisted(f, subject) == IsWhitelisted(f, subject)

IsSubjectBlacklisted(f, subject) == ~IsSubjectWhitelisted(f, subject)

\* the calls of the wrapper; hist keeps the text and the flag of a call
AddRuleWithFlagCall(rule, flag) ==
    /\ ~halted
    /\ calls < MaxCalls
    /\ \E env \in Outcomes : \E r \in {AddRuleWithFlag(fun, rule, flag, feed, env)} :
           Mutate("AddRuleWithFlag", <<rule, flag>>, r)

RemoveRuleWithFlagCall(rule, flag) ==
    /\ ~halted
    /\ calls < MaxCalls
    /\ \E env \in Outcomes : \E r \in {RemoveRuleWithFlag(fun, rule, flag, feed, env)} :
           Mutate("RemoveRuleWithFlag", <<rule, flag>>, r)

NextWithFlag ==
    \/ \E rule \in feed.rules : \E flag \in {FlagAll, FlagReg, FlagRzdb} :
           AddRuleWithFlagCall(rule, flag)
    \/ \E rule \in feed.rules : \E flag \in {FlagAll, FlagReg, FlagRzdb} :
           RemoveRuleWithFlagCall(rule, flag)
    \/ \E subject \in feed.subjects : IsWhitelistedCall(subject)

(***************************************************************************)
(* C18: AddRuleWithFlag on blank input                                     *)
(***************************************************************************)

\* an empty, a blank and a comment-only text, and an entry
SpecWithFlag ==
    /\ InitWith(Feed({"", "  ", "# comment", "example.org"},
                     {"example.org", "a.example.org", "foo.com"},
                     BOOLEAN, OneIana, OnePsl, FALSE))
    /\ [][NextWithFlag]_vars

\* C18: AddRuleWithFlag(text, flag) with an empty, blank or comment-only text
\* returns false and leaves the strict, suffix and regex indices as they were
WithFlagBlankRefused ==
    (/\ Len(hist) > 0
     /\ LastCall.op = "AddRuleWithFlag"
     /\ BlankOrComment(LastCall.rule[1]))
        => /\ ~LastCall.ret
           /\ fun.strict = LastCall.pre.strict
           /\ fun.ends = LastCall.pre.ends
           /\ fun.regex = LastCall.pre.regex
           /\ fun.compiled_regexp = LastCall.pre.compiled_regexp

(***************************************************************************)
(* pkg/givilsta: the queries on a line of a hosts or plain-text file       *)
(***************************************************************************)

\* strings.Fields: the runs of characters that are no white space
RECURSIVE Fields(_)
Fields(s) ==
    LET Word(t, n) == IF n < Len(t) /\ Char(t, n + 1) \notin WhiteSpace
                      THEN n + 1 ELSE n
        RECURSIVE End(_, _)
        End(t, n) == IF Word(t, n) = n THEN n ELSE End(t, n + 1)
        Rest(t, n) == <<UpTo(t, n)>> \o Fields(From(t, n))
    IN  IF TrimLeft(s) = "" THEN <<>> ELSE Rest(TrimLeft(s), End(TrimLeft(s), 0))

\* slices.Compact: of each run of equal elements the first
RECURSIVE Compact(_)
Compact(subjects) ==
    IF Len(subjects) < 2 THEN subjects
    ELSE IF subjects[1] = subjects[2] THEN Compact(Tail(subjects))
    ELSE <<subjects[1]>> \o Compact(Tail(subjects))

\* LineSubjects, were it to keep the repeated subjects of a line
LineSubjectsRepeated(line) ==
    LET Cut(normalized_line) ==
            IF Contains(normalized_line, "#")
            THEN UpTo(normalized_line, Index(normalized_line, "#"))
            ELSE normalized_line
        Of(normalized_line) ==
            IF normalized_line = "" \/ HasPrefix(normalized_line, "#") THEN <<>>
            ELSE Fields(Cut(normalized_line))
    IN  Of(TrimSpace(line))

\* the subjects both queries read from a line
LineSubjects(line) ==
    LET Cut(normalized_line) ==
            IF Contains(normalized_line, "#")
            THEN UpTo(normalized_line, Index(normalized_line, "#"))
            ELSE normalized_line
        Of(normalized_line) ==
            IF normalized_line = "" \/ HasPrefix(normalized_line, "#") THEN <<>>
            ELSE Compact(Fields(Cut(normalized_line)))
    IN  Of(TrimSpace(line))

GetWhitelistedFromLine(f, line) ==
    SelectSeq(LineSubjects(line), LAMBDA subject : IsSubjectWhitelisted(f, subject))

GetBlacklistedFromLine(f, line) ==
    SelectSeq(LineSubjects(line), LAMBDA subject : IsSubjectBlacklisted(f, subject))

\* a query leaves the ruler as it is; answer keeps which query it was
LineCall(op, line, result) ==
    /\ ~halted
    /\ answer = NoAnswer
    /\ answer' = <<[op |-> op, subject |-> line, ret |-> result]>>
    /\ UNCHANGED <<fun, feed, hist, halted, fetches, calls>>

GetWhitelistedFromLineCall(line) ==
    LineCall("GetWhitelistedFromLine", line, GetWhitelistedFromLine(fun, line))

GetBlacklistedFromLineCall(line) ==
    LineCall("GetBlacklistedFromLine", line, GetBlacklistedFromLine(fun, line))

\* a caller that feeds rules and queries lines; feed.subjects are the lines
NextLine ==
    \/ \E rule \in feed.rules : AddRuleCall(rule)
    \/ \E rule \in feed.rules : RemoveRuleCall(rule)
    \/ \E line \in feed.subjects : GetWhitelistedFromLineCall(line)
    \/ \E line \in feed.subjects : GetBlacklistedFromLineCall(line)

(***************************************************************************)
(* C19: the queries on a line                                              *)
(***************************************************************************)

\* blank and comment lines, a line with a repeated subject and a comment, a
\* hosts-file line with a tab, and a comment right behind a subject
SpecLine ==
    /\ InitWith(Feed({"foo.com", "REG ^bar"},
                     {"", "# foo.com", "foo.com foo.com bar.com # baz.com",
                      "0.0.0.0 foo.com\tbar.com foo.com", "bar.com#foo.com"},
                     BOOLEAN, OneIana, OnePsl, FALSE))
    /\ [][NextLine]_vars

\* C19: a blank or comment line gives an empty list from both queries; any
\* other line gives, of its tokens before the first '#' with adjacent
\* duplicates collapsed and in line order, the whitelisted ones from
\* GetWhitelistedFromLine and the others from GetBlacklistedFromLine
LineQueries ==
    LET t      == TrimSpace(answer[1].subject)
        before == IF Contains(t, "#") THEN UpTo(t, Index(t, "#")) ELSE t
        words  == SelectSeq(Split(ReplaceAll(before, "\t", " "), " "),
                            LAMBDA w : w # "")
        keep   == {i \in 1..Len(words) : i = 1 \/ words[i] # words[i - 1]}
        T      == [k \in 1..Cardinality(keep) |->
                      words[CHOOSE i \in keep : Cardinality({j \in keep : j <= i}) = k]]
        white  == SelectSeq(T, LAMBDA w : IsWhitelisted(fun, w))
        black  == SelectSeq(T, LAMBDA w : ~IsWhitelisted(fun, w))
    IN  Answered
            => IF t = "" \/ HasPrefix(t, "#") THEN answer[1].ret = <<>>
               ELSE IF answer[1].op = "GetWhitelistedFromLine"
               THEN answer[1].ret = white
               ELSE answer[1].ret = black

\* a line with a repeated subject and a comment, of which one subject is
\* whitelisted and another is not
LineQueriesWitness ==
    /\ Answered
    /\ answer[1].op = "GetBlacklistedFromLine"
    /\ answer[1].subject = "foo.com foo.com bar.com # baz.com"
    /\ answer[1].ret = <<"bar.com">>
    /\ GetWhitelistedFromLine(fun, answer[1].subject) = <<"foo.com">>

(***************************************************************************)
(* C20: the catalog is fetched once                                        *)
(***************************************************************************)

\* broad rules and a plain rule, with providers that answer the catalog of
\* the tests, in any order of their keys and with a fetch that may fail, or
\* that answer two empty mappings
SpecCatalog ==
    /\ \/ InitWith(Feed({"RZDB foo", "RZD bar", "foo.de"}, {"foo.de", "bar.org"},
                        BOOLEAN, TestIana, TestPsl, TRUE))
       \/ InitWith(Feed({"RZDB foo", "RZD bar", "foo.de"}, {"foo.de", "bar.org"},
                        BOOLEAN, {}, <<>>, FALSE))
    /\ [][Next]_vars

\* C20: whatever the calls and whatever the providers answer, the two
\* providers are fetched at most once
PopulateOnce == fetches <= 1

(***************************************************************************)
(* C21: what the catalog holds                                             *)
(***************************************************************************)

\* a broad rule; the root zone holds "de" and the public-suffix mapping the
\* list <<"co.org">> under the key "org"
SpecCatalogContents ==
    /\ InitWith(Feed({"RZDB foo", "RZD bar"},
                     {"foo.de", "foo.org", "foo.co.org", "bar.co.org", "foo.xyz"},
                     BOOLEAN, OneIana, OnePsl, FALSE))
    /\ [][Next]_vars

\* C21: after AddRule("RZDB " + b), b + "." + x is whitelisted for every key
\* x of the root-zone mapping and every suffix x in the lists of the
\* public-suffix mapping
CatalogContents ==
    LET raw      == LastCall.rule
        b        == From(raw, IF Char(raw, 4) = "B" THEN 5 ELSE 4)
        suffixes == UNION {{feed.psl[k][i] : i \in 1..Len(feed.psl[k])} :
                              k \in DOMAIN feed.psl}
    IN  (Answered /\ LastAdded("rzdb"))
            => \A x \in feed.iana \cup suffixes :
                   answer[1].subject = b \o "." \o x => answer[1].ret

(***************************************************************************)
(* C22: no halt outside broad rules                                        *)
(***************************************************************************)

\* a regex rule whose pattern regexp.Compile refuses, and two regex rules of
\* which one is the operand of the '*' of the other
SpecRegexHalt ==
    /\ InitWith(Feed({"REG *foo", "REG a*", "REG a", "foo.com"},
                     {"foo.com", "aa.com", "bar.com"},
                     BOOLEAN, OneIana, OnePsl, FALSE))
    /\ [][Next]_vars

\* C22: AddRule, RemoveRule and IsWhitelisted return normally for every
\* input that is no broad rule, a REG rule with an invalid pattern and a
\* removal that leaves an invalid pattern included
NoHaltOutsideBroadRules ==
    /\ ~halted
    /\ \A i \in 1..Len(hist) : ~hist[i].panic

(***************************************************************************)
(* cmd: the command line, which feeds the files of rules to a ruler and    *)
(* then filters the source file                                            *)
(***************************************************************************)

NoFlag == ""

\* the lines processCleanup hands to processRuleFile, file after file: the
\* whitelist files, then the bypass files; each with the flag and the bypass
\* argument of its call
RuleLines(files) ==
    LET Of(lines, flag, bypass) ==
            [i \in 1..Len(lines) |-> [line |-> lines[i], flag |-> flag, bypass |-> bypass]]
    IN  Of(files.whitelist, NoFlag, FALSE)
        \o Of(files.whitelistALL, FlagAll, FALSE)
        \o Of(files.whitelistREG, FlagReg, FALSE)
        \o Of(files.whitelistRZDB, FlagRzdb, FALSE)
        \o Of(files.bypass, NoFlag, TRUE)
        \o Of(files.bypassALL, FlagAll, TRUE)
        \o Of(files.bypassREG, FlagReg, TRUE)
        \o Of(files.bypassRZDB, FlagReg, TRUE)

\* the rule the callback of processRuleFile hands to the ruler for a line:
\* the line itself with NoFlag (AddRule, RemoveRule), the flag glued before
\* the line otherwise (AddRuleWithFlag, RemoveRuleWithFlag)
processRuleFile(line, whitelistFlag) ==
    IF whitelistFlag = NoFlag THEN line ELSE whitelistFlag \o line

\* one line of a whitelist file; calls counts the lines read so far
WhitelistLine ==
    LET Read(l) ==
            \E env \in Outcomes :
                \E r \in {AddRule(fun, processRuleFile(l.line, l.flag), feed, env)} :
                    Mutate("AddRule", <<l.line, l.flag>>, r)
    IN  /\ ~halted
        /\ calls < Len(RuleLines(feed.rules))
        /\ \E l \in {RuleLines(feed.rules)[calls + 1]} : ~l.bypass /\ Read(l)

\* one line of a bypass file
BypassLine ==
    LET Read(l) ==
            \E env \in Outcomes :
                \E r \in {RemoveRule(fun, processRuleFile(l.line, l.flag), feed, env)} :
                    Mutate("RemoveRule", <<l.line, l.flag>>, r)
    IN  /\ ~halted
        /\ calls < Len(RuleLines(feed.rules))
        /\ \E l \in {RuleLines(feed.rules)[calls + 1]} : l.bypass /\ Read(l)

\* one line of the source file, once the rule files are read: answer keeps
\* the lines in order, ret telling whether the line goes to the output
FilterSourceLine ==
    LET Filter(line) ==
            answer' = Append(answer,
                [subject |-> line,
                 ret     |-> TrimSpace(line) # "" /\ IsSubjectBlacklisted(fun, line)])
    IN  /\ ~halted
        /\ calls = Len(RuleLines(feed.rules))
        /\ Len(answer) < Len(feed.subjects)
        /\ \E line \in {feed.subjects[Len(answer) + 1]} : Filter(line)
        /\ UNCHANGED <<fun, feed, hist, halted, fetches, calls>>

NextCleanup == WhitelistLine \/ BypassLine \/ FilterSourceLine

\* the files of a run: feed.rules holds the rule files, feed.subjects the
\* lines of the source file
CleanupFeed(whitelist, whitelistRZDB, bypassRZDB, source) ==
    Feed([whitelist |-> whitelist, whitelistALL |-> <<>>, whitelistREG |-> <<>>,
          whitelistRZDB |-> whitelistRZDB, bypass |-> <<>>, bypassALL |-> <<>>,
          bypassREG |-> <<>>, bypassRZDB |-> bypassRZDB],
         source, BOOLEAN, OneIana, OnePsl, FALSE)

(***************************************************************************)
(* C23: broad rules of a --whitelist-rzdb file that a --bypass-rzdb file   *)
(* lists                                                                   *)
(***************************************************************************)

MaxFileLen == 2

\* the rule files tried: up to n broad rules
BroadFiles(n) == UNION {[1..k -> {"foo", "bar"}] : k \in 0..n}

SpecCleanup ==
    /\ \E whitelist \in {<<>>, <<"bar.de">>} :
         \E whitelistRZDB \in BroadFiles(MaxFileLen) :
           \E bypassRZDB \in BroadFiles(1) :
             InitWith(CleanupFeed(whitelist, whitelistRZDB, bypassRZDB,
                                  <<"foo.de", "", "bar.de">>))
    /\ [][NextCleanup]_vars

\* C23: when the source file is filtered, a line that is an expansion b.e of
\* a broad rule b, which a --whitelist-rzdb file adds once and a
\* --bypass-rzdb file lists, and that no other rule file whitelists, is not
\* whitelisted: it goes to the output.
BypassedBroadRule ==
    LET files == feed.rules
        In(lines, b) == \E i \in 1..Len(lines) : lines[i] = b
        Once(lines, b) == Cardinality({i \in 1..Len(lines) : lines[i] = b}) = 1
        Bypassed(b) == /\ Once(files.whitelistRZDB, b)
                       /\ In(files.bypassRZDB, b)
        catalog == feed.iana \cup
                   UNION {{feed.psl[k][i] : i \in 1..Len(feed.psl[k])} : k \in DOMAIN feed.psl}
    IN  \A i \in 1..Len(answer) :
            \A b \in {"foo", "bar"} :
                \A e \in catalog :
                    (/\ Bypassed(b)
                     /\ answer[i].subject = b \o "." \o e
                     /\ ~In(files.whitelist, answer[i].subject))
                    => answer[i].ret

(***************************************************************************)
(* C24: one kind handler per rule; flag letters without a separator make a *)
(* plain rule                                                              *)
(***************************************************************************)

SpecClassify ==
    /\ InitWith(Feed({"allhosts.example", "regex.example", "ALL hosts.example",
                      "REG x", "RZDB foo"},
                     {"allhosts.example"},
                     BOOLEAN, OneIana, OnePsl, FALSE))
    /\ [][Next]_vars

\* C24: a call of AddRule or RemoveRule with a non-empty normalized rule
\* leaves the ruler as the one handler of the rule's kind leaves it, the
\* kinds tried in the order All, Reg, Rzdb, Plain; 'allhosts.example' and
\* 'regex.example' are plain rules: the suffix index and the regex pattern
\* stay as they were, and an add stores the whole text as a strict entry.
OneHandlerPerRule ==
    LET Handler(c, n, kind, env) ==
            IF c.op = "AddRule"
            THEN CASE kind = "all"  -> parseAllFlaggedRule(c.pre, n)
                   [] kind = "reg"  -> parseRegexFlaggedRule(c.pre, n)
                   [] kind = "rzdb" -> parseRZDBFlagedRule(c.pre, n, feed, env)
                   [] OTHER         -> parsePlainRule(c.pre, n)
            ELSE CASE kind = "all"  -> unparseAllFlaggedRule(c.pre, n)
                   [] kind = "reg"  -> unparseRegexFlaggedRule(c.pre, n)
                   [] kind = "rzdb" -> unparseRZDBFlagedRule(c.pre, n, feed, env)
                   [] OTHER         -> unparsePlainRule(c.pre, n)
        Plain(c) ==
            /\ RuleKind(c.rule) = "plain"
            /\ fun.ends = c.pre.ends
            /\ fun.regex = c.pre.regex
            /\ fun.compiled_regexp = c.pre.compiled_regexp
            /\ c.op = "AddRule" =>
                   InMap(fun.strict, commonSearchKeyFromRule(c.rule), c.rule)
        One(c) ==
            /\ \E env \in FetchOutcomes(feed) :
                   fun = Handler(c, NormalizeRule(c.rule), RuleKind(c.rule), env).fun
            /\ c.rule \in {"allhosts.example", "regex.example"} => Plain(c)
    IN  (Len(hist) > 0 /\ ~halted /\ RuleKind(LastCall.rule) # "none") => One(LastCall)

\* 'allhosts.example' is added to a ruler that holds a suffix entry and a
\* regex pattern
OneHandlerPerRuleWitness ==
    /\ Len(hist) = 2
    /\ ~halted
    /\ hist[1].op = "AddRule" /\ hist[2].op = "AddRule"
    /\ hist[2].rule = "allhosts.example"
    /\ hist[2].pre.regex # ""
    /\ DOMAIN hist[2].pre.ends # {}

(***************************************************************************)
(* C25: the entries an ALL rule adds                                       *)
(***************************************************************************)

SpecAll ==
    /\ InitWith(Feed({"ALL .foo.saarlouis.de", "ALL .de", "ALL foo.de"},
                     {"foo.saarlouis.de", "bar.foo.saarlouis.de", "saarlouis.de", "de"},
                     BOOLEAN, OneIana, OnePsl, FALSE))
    /\ [][Next]_vars

\* C25: AddRule of an ALL rule with body b adds, and adds nothing else: for b
\* with a leading dot and more than one dot, the suffix entry b and the
\* strict entry b without its leading dot (and 'www.' before that entry with
\* complement handling); for b with a leading dot and no other dot, the
\* suffix entry b alone; otherwise the suffix entry '.' + b and the strict
\* entry b. With 'ALL .foo.saarlouis.de' as the only rule 'foo.saarlouis.de'
\* and 'bar.foo.saarlouis.de' are whitelisted and 'saarlouis.de' is not;
\* with 'ALL .de' as the only rule 'de' is not.
AllRuleEntries ==
    LET Elems(m) == UNION {{m[k][i] : i \in 1..Len(m[k])} : k \in DOMAIN m}
        In(m, x) ==
            Cardinality(UNION {{<<k, i>> : i \in {j \in 1..Len(m[k]) : m[k][j] = x}} :
                                  k \in DOMAIN m})
        Strict(b, complement) ==
            IF HasPrefix(b, ".")
            THEN IF Count(b, ".") > 1
                 THEN {TrimPrefix(b, ".")} \cup
                      (IF complement THEN {"www." \o TrimPrefix(b, ".")} ELSE {})
                 ELSE {}
            ELSE {b}
        Ends(b) == IF HasPrefix(b, ".") THEN {b} ELSE {"." \o b}
        Added(pre, b) ==
            /\ \A x \in Elems(fun.strict) \cup Strict(b, pre.handle_complement) :
                   In(fun.strict, x) = In(pre.strict, x) +
                       (IF x \in Strict(b, pre.handle_complement) THEN 1 ELSE 0)
            /\ \A x \in Elems(fun.ends) \cup Ends(b) :
                   In(fun.ends, x) = In(pre.ends, x) + (IF x \in Ends(b) THEN 1 ELSE 0)
            /\ fun.regex = pre.regex
        Example(rule, s, ret) ==
            (OnlyRule("all") /\ LastCall.rule = rule /\ Answered /\ answer[1].subject = s)
            => answer[1].ret = ret
    IN  /\ LastAdded("all") =>
            Added(LastCall.pre, cleanupFlags(FlagsAll, NormalizeRule(LastCall.rule)))
        /\ Example("ALL .foo.saarlouis.de", "foo.saarlouis.de", TRUE)
        /\ Example("ALL .foo.saarlouis.de", "bar.foo.saarlouis.de", TRUE)
        /\ Example("ALL .foo.saarlouis.de", "saarlouis.de", FALSE)
        /\ Example("ALL .de", "de", FALSE)

\* 'ALL .de' is the only rule and 'de' is looked up
AllRuleEntriesWitness ==
    /\ OnlyRule("all")
    /\ LastCall.rule = "ALL .de"
    /\ Answered
    /\ answer[1].subject = "de"
    /\ ~answer[1].ret

(***************************************************************************)
(* C26: the compiled matcher and the pattern text                          *)
(***************************************************************************)

SpecRegexEmpty ==
    /\ InitWith(Feed({"REG:", "REG a", "REG b"}, {"a.de", "c.de"},
                     BOOLEAN, OneIana, OnePsl, FALSE))
    /\ [][Next]_vars

\* C26: as long as no call has panicked, the compiled matcher is absent
\* exactly when the pattern text is empty, and a matcher that is there was
\* compiled from the pattern text.
RegexMatcherConsistent ==
    ~halted =>
        /\ fun.compiled_regexp = NilRegexp <=> fun.regex = ""
        /\ fun.compiled_regexp # NilRegexp => fun.compiled_regexp[1] = fun.regex

(***************************************************************************)
(* C27: what a positive answer rests on                                    *)
(***************************************************************************)

SpecNoFalsePositive ==
    /\ InitWith(Feed({"foo.de", "ALL .org", "http://foo.de/a", "REG x"},
                     {"foo.de", "foo.com", "a.org", "http://foo.de/a"},
                     BOOLEAN, OneIana, OnePsl, FALSE))
    /\ [][Next]_vars

\* C27: a new ruler whitelists no subject; and while the ruler holds no
\* compiled regex, as it does as long as no REG rule was added, a subject is
\* whitelisted only if its net location, or its normalized text when that
\* begins with http:// or https://, equals an entry of the strict index or
\* ends with an entry of the suffix index.
NoFalsePositive ==
    LET Elems(m) == UNION {{m[k][i] : i \in 1..Len(m[k])} : k \in DOMAIN m}
        Found(text) ==
            \/ text \in Elems(fun.strict)
            \/ \E suffix \in Elems(fun.ends) : HasSuffix(text, suffix)
        Grounded(n, netloc) ==
            \/ ~netloc.err /\ Found(netloc.text)
            \/ IsURL(n) /\ Found(n)
        Rests(s) ==
            Grounded(NormalizeSubject(s, fun.handle_complement),
                     SubjectNetLocation(s, fun.handle_complement))
    IN  (Answered /\ answer[1].ret) =>
            /\ hist # <<>>
            /\ fun.compiled_regexp = NilRegexp => Rests(answer[1].subject)

\* a URL that is not its own net location is whitelisted by the rule that is
\* this URL, on a ruler without regex
NoFalsePositiveWitness ==
    /\ Answered
    /\ answer[1].ret
    /\ answer[1].subject = "http://foo.de/a"
    /\ fun.compiled_regexp = NilRegexp
    /\ ~NetLocationIs("http://foo.de/a", fun.handle_complement, "http://foo.de/a")
    /\ Len(hist) = 2
    /\ LastCall.op = "RemoveRule" /\ LastCall.rule = "foo.de"

(***************************************************************************)
(* C28: subjects without a host                                            *)
(***************************************************************************)

SpecNoHost ==
    /\ InitWith(Feed({"www.", "ALL:", "REG a*", "foo.de"},
                     {"/path/to/resource", "", "# comment", "foo.de"},
                     BOOLEAN, OneIana, OnePsl, FALSE))
    /\ [][Next]_vars

\* C28: whatever the rules added, a subject that normalizes to the empty
\* string, and the subject '/path/to/resource', which has a path and no host,
\* are not whitelisted.
NoHostNotWhitelisted ==
    LET Unmatchable(s) ==
            \/ NormalizeSubject(s, fun.handle_complement) = ""
            \/ s = "/path/to/resource"
    IN  (Answered /\ Unmatchable(answer[1].subject)) => ~answer[1].ret

(***************************************************************************)
(* C29: a provider that fails while the catalog is fetched                 *)
(***************************************************************************)

\* C29: a broad-rule call that halts on a failing provider leaves the strict
\* index as it was and the catalog without any extension.
FailedFetchLeavesNoCatalog ==
    (halted /\ RuleKind(LastCall.rule) = "rzdb") =>
        /\ fun.strict = LastCall.pre.strict
        /\ fun.extensions = <<>>

=============================================================================
